---- MODULE Spec2Model ----
(***************************************************************************)
(* AudioManager (src/src/js/audio/AudioManager.js): the Web Audio sound    *)
(* engine with modal-synthesis keypresses and the synthetic typing loop.   *)
(*                                                                         *)
(* Audio-clock times are integers in microseconds (0.0015 s = 1500).       *)
(* Gains are integers in hundredths (0.4 = 40).  Math.random() is a draw   *)
(* in thousandths (0..999 stands for [0, 1)).  null is 0 for handles and   *)
(* ids, NoGain for the master gain node.                                   *)
(***************************************************************************)
EXTENDS Integers, Sequences, FiniteSets, TLC

VARIABLES
    context,           \* this.context: 0 (null) or the id of an AudioContext
    masterGain,        \* this.masterGain: NoGain or the gain node's record
    typingLoopSource,  \* this.typingLoopSource: 0 or the id of a source
    typingLoopBuffer,  \* this.typingLoopBuffer is a decoded buffer
    keyPressBuffer,    \* this.keyPressBuffer is a decoded buffer
    brownNoiseBuffer,  \* this.brownNoiseBuffer is a generated buffer
    enabled,           \* this.enabled
    initialized,       \* this.initialized
    typingLoopTimeout, \* this.typingLoopTimeout: 0 or a timer id
    ctxCreated,        \* number of AudioContexts constructed so far
    closedCtx,         \* the closed contexts among the one held and those awaited
    sources,           \* ids of the looping buffer sources started and not stopped
    timers,            \* ids of the pending setTimeout timers of the loop
    voices,            \* one-shot voices connected to the master gain, oldest first
    now,               \* context.currentTime, as the operations of this run read it
    stored,            \* localStorage[CONFIG.sound.storageKey]
    resuming,          \* contexts whose resume() an init() call awaits (line 34)
    loading,           \* number of init() calls awaiting loadSounds() (line 43)
    noiseGenCount,     \* number of createBrownNoiseBuffer() calls
    loadAttempts,      \* number of loadSounds() calls
    setupFailed,       \* the catch block of init has run
    pressLoadFailed,   \* a loadSound of the key-press sample returned null
    stopped,           \* stopTypingLoop ran and startTypingLoop was not called since
    last,              \* what the last operation gave back
    mode,              \* the mode a filter and its gain were last built from
    noise              \* the noise buffer createBrownNoiseBuffer is filling

fields == <<context, masterGain, typingLoopSource, typingLoopBuffer, keyPressBuffer,
            brownNoiseBuffer, enabled, initialized, typingLoopTimeout>>

world == <<ctxCreated, closedCtx, sources, timers, voices, now, stored, resuming,
           loading>>

history == <<noiseGenCount, loadAttempts, setupFailed, pressLoadFailed, stopped, last>>

\* what the synthesis computes, which the engine above carries only as
\* "a buffer is there" and "a voice with so many modes"
synth == <<mode, noise>>

vars == <<fields, world, history, synth>>

\* groups of variables an operation leaves alone together
audio == <<context, masterGain, ctxCreated, closedCtx>>

assets == <<typingLoopBuffer, keyPressBuffer, brownNoiseBuffer, pressLoadFailed>>

loop == <<typingLoopSource, typingLoopTimeout, sources, timers>>

setup == <<initialized, resuming, loading, noiseGenCount, loadAttempts>>

(***************************************************************************)
(* Bounds of the model.                                                    *)
(***************************************************************************)
MaxContexts == 2

MaxTimers == 2

MaxSources == 1

MaxVoices == 3

\* the instant of the audio clock at which a run of operations takes place
Clock == {250000}

\* the values Math.random() takes, in thousandths
RandomDraws == {0, 999}

\* the values Math.random() takes where a mode is built
ModeDraws == {0, 500, 999}

\* context.sampleRate
SampleRates == {8000, 11025}

(***************************************************************************)
(* CONFIG.audio (config.js).                                               *)
(***************************************************************************)
masterVolume == 70

keyPressVolume == 50

fadeOutDuration == 300

NoGain == [value |-> 0, target |-> 0, rampEnd |-> 0]

(***************************************************************************)
(* The three events of one keypress.                                       *)
(***************************************************************************)
ClickConfig ==
    [duration |-> 2000,
     modes |-> << [freq |-> 1100, lo |-> 97, hi |-> 103, Q |-> 8, gain |-> 50],
                  [freq |-> 2200, lo |-> 97, hi |-> 103, Q |-> 5, gain |-> 25],
                  [freq |-> 3800, lo |-> 97, hi |-> 103, Q |-> 3, gain |-> 10] >>,
     masterGain |-> 40]

ImpactConfig ==
    [duration |-> 4000,
     modes |-> << [freq |-> 160, lo |-> 95, hi |-> 105, Q |-> 28, gain |-> 70],
                  [freq |-> 280, lo |-> 95, hi |-> 105, Q |-> 22, gain |-> 50],
                  [freq |-> 520, lo |-> 97, hi |-> 103, Q |-> 18, gain |-> 100],
                  [freq |-> 780, lo |-> 97, hi |-> 103, Q |-> 14, gain |-> 60],
                  [freq |-> 1150, lo |-> 97, hi |-> 103, Q |-> 10, gain |-> 35],
                  [freq |-> 1800, lo |-> 97, hi |-> 103, Q |-> 6, gain |-> 20],
                  [freq |-> 2900, lo |-> 97, hi |-> 103, Q |-> 4, gain |-> 10] >>,
     masterGain |-> 80]

UpstrokeConfig ==
    [duration |-> 1500,
     modes |-> << [freq |-> 1250, lo |-> 97, hi |-> 103, Q |-> 7, gain |-> 30],
                  [freq |-> 2000, lo |-> 97, hi |-> 103, Q |-> 5, gain |-> 15],
                  [freq |-> 200, lo |-> 95, hi |-> 105, Q |-> 15, gain |-> 20] >>,
     masterGain |-> 25]

ImpactOffset == 1500

UpstrokeOffset == 55000

DecayTail == 150000

WarmupDelay == 500000

\* a next delay of 100 + Math.random() * 200 milliseconds
NextDelay_Wide(r) == 100000 + r * 200

\* 100 + Math.random() * 150 milliseconds, in microseconds
NextDelay(r) == 100000 + r * 150

\* String(enabled)
StringOf(b) == IF b THEN "true" ELSE "false"

CountKind(vs, k) == Cardinality({i \in 1..Len(vs) : vs[i].kind = k})

\* what the last operation gave back: toggle its return value, a setTimeout
\* call its delay, stopTypingLoop whether it found nothing to stop, dispose
\* whether it called close() and whether that promise was rejected, a call
\* that returned at its gate (lines 110, 158) the fact, playModalKeypress
\* that it found no context or no noise (line 196), an onended handler that
\* it ran; any other operation leaves NoOutput
NoOutput == [op |-> "none", ret |-> FALSE, idle |-> FALSE, delay |-> 0,
             rejected |-> FALSE]

NoMode == [base |-> [freq |-> 0, lo |-> 0, hi |-> 0, Q |-> 0, gain |-> 0],
           freq |-> 0, Q |-> 0, gain |-> 0]

NoNoise == [sampleRate |-> 0, length |-> 0, written |-> 0, lastOut |-> 0,
            sample |-> 0]

Init ==
    /\ context = 0
    /\ masterGain = NoGain
    /\ typingLoopSource = 0
    /\ typingLoopBuffer = FALSE
    /\ keyPressBuffer = FALSE
    /\ brownNoiseBuffer = FALSE
    /\ enabled = TRUE
    /\ initialized = FALSE
    /\ typingLoopTimeout = 0
    /\ ctxCreated = 0
    /\ closedCtx = {}
    /\ sources = {}
    /\ timers = {}
    /\ voices = << >>
    /\ now \in Clock
    /\ stored = "unset"
    /\ resuming = {}
    /\ loading = 0
    /\ noiseGenCount = 0
    /\ loadAttempts = 0
    /\ setupFailed = FALSE
    /\ pressLoadFailed = FALSE
    /\ stopped = FALSE
    /\ last = NoOutput
    /\ mode = NoMode
    /\ noise = NoNoise

(***************************************************************************)
(* init(): the synchronous part up to the first await, and the             *)
(* continuations after `await this.context.resume()` and after             *)
(* `await this.loadSounds()`.                                              *)
(***************************************************************************)
\* lines 28-30: the gain node with its value set and no ramp scheduled
NewGain == [value |-> masterVolume, target |-> masterVolume, rampEnd |-> 0]

\* a closed context matters while the engine holds it or an init awaits its resume
Held(cs, c, rs) == {x \in cs : x = c \/ x \in rs}

\* lines 38-43: the noise buffer, initialized, and loadSounds up to its await
SetupRest ==
    /\ brownNoiseBuffer' = TRUE
    /\ noiseGenCount' = noiseGenCount + 1
    /\ initialized' = TRUE
    /\ loadAttempts' = loadAttempts + 1
    /\ loading' = loading + 1

\* line 24: if (this.initialized) return
InitAlready ==
    /\ initialized
    /\ last' = NoOutput
    /\ UNCHANGED <<synth, audio, assets, loop, setup, enabled, voices, now, stored,
                   setupFailed, stopped>>

\* line 27 throws (no AudioContext available): the catch block disables sound
InitCtorThrows ==
    /\ ~initialized
    /\ enabled' = FALSE
    /\ setupFailed' = TRUE
    /\ last' = NoOutput
    /\ UNCHANGED <<synth, audio, assets, loop, setup, voices, now, stored, stopped>>

\* lines 27-34: a context created suspended; init waits for resume()
InitSuspended ==
    /\ ~initialized
    /\ ctxCreated < MaxContexts
    /\ ctxCreated' = ctxCreated + 1
    /\ context' = ctxCreated + 1
    /\ masterGain' = NewGain
    /\ resuming' = resuming \cup {ctxCreated + 1}
    /\ closedCtx' = Held(closedCtx, context', resuming')
    /\ last' = NoOutput
    /\ UNCHANGED <<synth, assets, loop, initialized, loading, noiseGenCount, loadAttempts,
                   enabled, voices, now, stored, setupFailed, stopped>>

\* lines 27-43: a context created running; init runs on to the load's await
InitRunning ==
    /\ ~initialized
    /\ ctxCreated < MaxContexts
    /\ ctxCreated' = ctxCreated + 1
    /\ context' = ctxCreated + 1
    /\ masterGain' = NewGain
    /\ SetupRest
    /\ closedCtx' = Held(closedCtx, context', resuming)
    /\ last' = NoOutput
    /\ UNCHANGED <<synth, typingLoopBuffer, keyPressBuffer, pressLoadFailed, loop, resuming,
                   enabled, voices, now, stored, setupFailed, stopped>>

\* line 34 resolves (resume() of a closed context never does): lines 38-43 run
ResumeResolved(c) ==
    /\ c \in resuming
    /\ c \notin closedCtx
    /\ resuming' = resuming \ {c}
    /\ SetupRest
    /\ last' = NoOutput
    /\ UNCHANGED <<synth, audio, typingLoopBuffer, keyPressBuffer, pressLoadFailed, loop,
                   enabled, voices, now, stored, setupFailed, stopped>>

\* line 34 rejects: the catch block disables sound
ResumeRejected(c) ==
    /\ c \in resuming
    /\ resuming' = resuming \ {c}
    /\ closedCtx' = Held(closedCtx, context, resuming')
    /\ enabled' = FALSE
    /\ setupFailed' = TRUE
    /\ last' = NoOutput
    /\ UNCHANGED <<synth, context, masterGain, ctxCreated, assets, loop, initialized,
                   loading, noiseGenCount, loadAttempts, voices, now, stored,
                   stopped>>

\* lines 90-104: the decoded buffer, or null on any fetch or decode failure
LoadSound(ok) == ok

\* lines 74-80: both loadSound promises settled; loadSounds never throws
LoadSounds(loopOk, pressOk) ==
    /\ loading > 0
    /\ loading' = loading - 1
    /\ typingLoopBuffer' = LoadSound(loopOk)
    /\ keyPressBuffer' = LoadSound(pressOk)
    /\ pressLoadFailed' = (pressLoadFailed \/ ~LoadSound(pressOk))
    /\ last' = NoOutput
    /\ UNCHANGED <<synth, audio, brownNoiseBuffer, loop, initialized, resuming,
                   noiseGenCount, loadAttempts, enabled, voices, now, stored,
                   setupFailed, stopped>>

(***************************************************************************)
(* The typing loop.                                                        *)
(***************************************************************************)
\* setTimeout returns an id no pending timer has
NewTimer(pending) == CHOOSE id \in 1..(Cardinality(pending) + 1) : id \notin pending

\* createBufferSource returns a node that is none of the playing ones
NewSource(playing) == CHOOSE id \in 1..(Cardinality(playing) + 1) : id \notin playing

\* stopTypingLoop that clears the timer and keeps its handle
StopLoop_KeepsHandle ==
    /\ sources' = IF typingLoopSource # 0
                  THEN sources \ {typingLoopSource}
                  ELSE sources
    /\ typingLoopSource' = 0
    /\ timers' = IF typingLoopTimeout # 0
                 THEN timers \ {typingLoopTimeout}
                 ELSE timers
    /\ typingLoopTimeout' = typingLoopTimeout

\* lines 138-151: what stopTypingLoop does to the loop source and the loop timer
StopLoop ==
    /\ sources' = IF typingLoopSource # 0
                  THEN sources \ {typingLoopSource}
                  ELSE sources
    /\ typingLoopSource' = 0
    /\ timers' = IF typingLoopTimeout # 0
                 THEN timers \ {typingLoopTimeout}
                 ELSE timers
    /\ typingLoopTimeout' = 0

\* stopTypingLoop that also cuts the voices that are sounding
StopTypingLoop_CutsVoices ==
    /\ StopLoop
    /\ stopped' = TRUE
    /\ voices' = << >>
    /\ last' = [NoOutput EXCEPT !.op = "stopTypingLoop",
                                !.idle = (typingLoopSource = 0 /\ typingLoopTimeout = 0)]
    /\ UNCHANGED <<synth, audio, assets, setup, enabled, now, stored, setupFailed>>

StopTypingLoop ==
    /\ StopLoop
    /\ stopped' = TRUE
    /\ last' = [NoOutput EXCEPT !.op = "stopTypingLoop",
                                !.idle = (typingLoopSource = 0 /\ typingLoopTimeout = 0)]
    /\ UNCHANGED <<synth, audio, assets, setup, enabled, voices, now, stored, setupFailed>>

\* line 110: the gate returns
StartGated ==
    /\ ~enabled \/ ~initialized
    /\ stopped' = FALSE
    /\ last' = [NoOutput EXCEPT !.op = "gate"]
    /\ UNCHANGED <<synth, audio, assets, loop, setup, enabled, voices, now, stored,
                   setupFailed>>

\* lines 112-127: a looping source of the loaded buffer is created and started
StartRecorded ==
    /\ enabled /\ initialized
    /\ typingLoopBuffer
    /\ Cardinality(sources) < MaxSources
    /\ sources' = sources \cup {NewSource(sources)}
    /\ typingLoopSource' = NewSource(sources)
    /\ stopped' = FALSE
    /\ last' = NoOutput
    /\ UNCHANGED <<synth, audio, assets, setup, typingLoopTimeout, timers, enabled, voices,
                   now, stored, setupFailed>>

\* lines 293-309: startSyntheticTypingLoop sets the first timer
StartSyntheticTypingLoop ==
    /\ timers' = timers \cup {NewTimer(timers)}
    /\ typingLoopTimeout' = NewTimer(timers)

\* lines 128-131
StartSynthetic ==
    /\ enabled /\ initialized
    /\ ~typingLoopBuffer
    /\ Cardinality(timers) < MaxTimers
    /\ StartSyntheticTypingLoop
    /\ stopped' = FALSE
    /\ last' = [NoOutput EXCEPT !.op = "setTimeout", !.delay = WarmupDelay]
    /\ UNCHANGED <<synth, audio, assets, setup, typingLoopSource, sources, enabled, voices,
                   now, stored, setupFailed>>

(***************************************************************************)
(* Voices.                                                                 *)
(***************************************************************************)
\* a voice stopped at the end of its burst, without the decay tail
TriggerModalImpact_NoTail(vs, startTime, config) ==
    Append(vs, [kind |-> "modal", start |-> startTime,
                duration |-> config.duration,
                stop |-> startTime + config.duration,
                modes |-> Len(config.modes),
                gain |-> config.masterGain * keyPressVolume,
                onended |-> FALSE])

\* lines 241-281: one voice, started at startTime, stopped after the decay tail;
\* its impactGain is connected to the master gain (line 262), and no handler
\* is set on the exciter
TriggerModalImpact(vs, startTime, config) ==
    Append(vs, [kind |-> "modal", start |-> startTime,
                duration |-> config.duration,
                stop |-> startTime + config.duration + DecayTail,
                modes |-> Len(config.modes),
                gain |-> config.masterGain * keyPressVolume,
                onended |-> FALSE])

\* playModalKeypress without the return of line 196
PlayModalKeypress_NoGuard(vs) ==
    LET t == now
        v1 == TriggerModalImpact(vs, t, ClickConfig)
        v2 == TriggerModalImpact(v1, t + ImpactOffset, ImpactConfig)
    IN  TriggerModalImpact(v2, t + UpstrokeOffset, UpstrokeConfig)

\* lines 195-236: three voices from one captured timestamp
PlayModalKeypress(vs) ==
    IF context = 0 \/ ~brownNoiseBuffer
    THEN vs
    ELSE LET t == now
             v1 == TriggerModalImpact(vs, t, ClickConfig)
             v2 == TriggerModalImpact(v1, t + ImpactOffset, ImpactConfig)
         IN  TriggerModalImpact(v2, t + UpstrokeOffset, UpstrokeConfig)

\* lines 170-189: one sample voice, started at once, with its onended handler
PlayBuffer(vs) ==
    Append(vs, [kind |-> "sample", start |-> now, duration |-> 0, stop |-> 0,
                modes |-> 0, gain |-> keyPressVolume * 100,
                onended |-> TRUE])

\* a disconnect that takes the younger voices along
RemoveAt_Through(vs, i) == SubSeq(vs, 1, i - 1)

RemoveAt(vs, i) == SubSeq(vs, 1, i - 1) \o SubSeq(vs, i + 1, Len(vs))

\* lines 185-188: playback of voice i ended; its handler disconnects the
\* source and the gain of that voice
SourceEnded(i) ==
    /\ i \in 1..Len(voices)
    /\ voices[i].onended
    /\ voices' = RemoveAt(voices, i)
    /\ last' = [NoOutput EXCEPT !.op = "ended"]
    /\ UNCHANGED <<synth, audio, assets, loop, setup, enabled, now, stored, setupFailed,
                   stopped>>

\* playKeyPress that looks at the loop's buffer instead of the keypress's
PlayKeyPressVoices_WrongBuffer(vs) ==
    IF ~enabled \/ ~initialized
    THEN vs
    ELSE IF typingLoopBuffer THEN PlayBuffer(vs) ELSE PlayModalKeypress(vs)

\* playKeyPress that does not look at the enabled flag
PlayKeyPressVoices_NoEnabledGate(vs) ==
    IF ~initialized
    THEN vs
    ELSE IF keyPressBuffer THEN PlayBuffer(vs) ELSE PlayModalKeypress(vs)

\* lines 157-165
PlayKeyPressVoices(vs) ==
    IF ~enabled \/ ~initialized
    THEN vs
    ELSE IF keyPressBuffer THEN PlayBuffer(vs) ELSE PlayModalKeypress(vs)

PlayKeyPress ==
    /\ Len(PlayKeyPressVoices(voices)) <= MaxVoices
    /\ voices' = PlayKeyPressVoices(voices)
    /\ last' = IF ~enabled \/ ~initialized
               THEN [NoOutput EXCEPT !.op = "gate"]
               ELSE NoOutput
    /\ UNCHANGED <<synth, audio, assets, loop, setup, enabled, now, stored, setupFailed,
                   stopped>>

\* playModalKeypress() called on the object itself, not through playKeyPress
PlayModalKeypressCall ==
    /\ Len(PlayModalKeypress(voices)) <= MaxVoices
    /\ voices' = PlayModalKeypress(voices)
    /\ last' = IF context = 0 \/ ~brownNoiseBuffer
               THEN [NoOutput EXCEPT !.op = "unavailable"]
               ELSE NoOutput
    /\ UNCHANGED <<synth, audio, assets, loop, setup, enabled, now, stored, setupFailed,
                   stopped>>

\* lines 294-298: the timer callback finds sound disabled
TimerFiresDisabled(tm) ==
    /\ tm \in timers
    /\ ~enabled
    /\ timers' = timers \ {tm}
    /\ typingLoopTimeout' = 0
    /\ last' = NoOutput
    /\ UNCHANGED <<synth, audio, assets, setup, typingLoopSource, sources, enabled, voices,
                   now, stored, setupFailed, stopped>>

\* lines 300-304: the timer callback plays a keypress and sets the next timer
TimerFires(tm, r) ==
    /\ tm \in timers
    /\ enabled
    /\ Len(PlayModalKeypress(voices)) <= MaxVoices
    /\ voices' = PlayModalKeypress(voices)
    /\ timers' = (timers \ {tm}) \cup {NewTimer(timers \ {tm})}
    /\ typingLoopTimeout' = NewTimer(timers \ {tm})
    /\ last' = [NoOutput EXCEPT !.op = "setTimeout", !.delay = NextDelay(r)]
    /\ UNCHANGED <<synth, audio, assets, setup, typingLoopSource, sources, enabled, now,
                   stored, setupFailed, stopped>>

(***************************************************************************)
(* setEnabled, toggle, dispose.                                            *)
(***************************************************************************)
\* setEnabled that persists the flag it found, not the one it set
SetEnabledBody_StalePersist(b) ==
    /\ enabled' = b
    /\ masterGain' = IF masterGain # NoGain /\ context # 0
                     THEN [masterGain EXCEPT
                              !.target = IF b THEN masterVolume ELSE 0,
                              !.rampEnd = now + fadeOutDuration * 1000]
                     ELSE masterGain
    /\ IF ~b
       THEN StopLoop /\ stopped' = TRUE
       ELSE UNCHANGED <<loop, stopped>>
    /\ stored' = StringOf(enabled)
    /\ UNCHANGED <<synth, context, ctxCreated, closedCtx, assets, setup, voices, now,
                   setupFailed>>

\* lines 315-331
SetEnabledBody(b) ==
    /\ enabled' = b
    /\ masterGain' = IF masterGain # NoGain /\ context # 0
                     THEN [masterGain EXCEPT
                              !.target = IF b THEN masterVolume ELSE 0,
                              !.rampEnd = now + fadeOutDuration * 1000]
                     ELSE masterGain
    /\ IF ~b
       THEN StopLoop /\ stopped' = TRUE
       ELSE UNCHANGED <<loop, stopped>>
    /\ stored' = StringOf(b)
    /\ UNCHANGED <<synth, context, ctxCreated, closedCtx, assets, setup, voices, now,
                   setupFailed>>

SetEnabled(b) ==
    /\ SetEnabledBody(b)
    /\ last' = NoOutput

\* lines 337-340
Toggle ==
    /\ SetEnabledBody(~enabled)
    /\ last' = [NoOutput EXCEPT !.op = "toggle", !.ret = enabled']

\* lines 345-350
Dispose ==
    /\ StopLoop
    /\ stopped' = TRUE
    /\ closedCtx' = IF context # 0 THEN closedCtx \cup {context} ELSE closedCtx
    /\ last' = IF context # 0
               THEN [NoOutput EXCEPT !.op = "close",
                                     !.rejected = (context \in closedCtx)]
               ELSE NoOutput
    /\ UNCHANGED <<synth, context, masterGain, ctxCreated, assets, setup, enabled, voices,
                   now, stored, setupFailed>>

Next ==
    \/ InitAlready
    \/ InitCtorThrows
    \/ InitSuspended
    \/ InitRunning
    \/ \E c \in resuming : ResumeResolved(c)
    \/ \E c \in resuming : ResumeRejected(c)
    \/ \E loopOk \in BOOLEAN, pressOk \in BOOLEAN : LoadSounds(loopOk, pressOk)
    \/ StartGated
    \/ StartRecorded
    \/ StartSynthetic
    \/ StopTypingLoop
    \/ PlayKeyPress
    \/ PlayModalKeypressCall
    \/ \E i \in 1..MaxVoices : SourceEnded(i)
    \/ \E tm \in timers : TimerFiresDisabled(tm)
    \/ \E tm \in timers : \E r \in RandomDraws : TimerFires(tm, r)
    \/ \E b \in BOOLEAN : SetEnabled(b)
    \/ Toggle
    \/ Dispose

Spec == Init /\ [][Next]_vars

(***************************************************************************)
(* The synthesis on its own: the numbers playModalKeypress and             *)
(* triggerModalImpact give a mode, and the samples createBrownNoiseBuffer  *)
(* writes.  The bounds of rand are in hundredths and its value in          *)
(* hundred-thousandths, so frequencies are in hundred-thousandths of a     *)
(* hertz and mode gains in ten-millionths; the integrator state is in      *)
(* thousandths and a sample in ten-thousandths; a division rounds down.    *)
(***************************************************************************)
\* rand with twice the spread
Rand_Doubled(min, max, r) == min * 1000 + r * 2 * (max - min)

\* lines 286-288: min + Math.random() * (max - min)
Rand(min, max, r) == min * 1000 + r * (max - min)

\* lines 204-232 and 268-272: the filter and the gain of one mode
BuildMode(m, rf, rg) ==
    [base |-> m,
     freq |-> m.freq * Rand(m.lo, m.hi, rf),
     Q |-> m.Q,
     gain |-> m.gain * Rand(85, 115, rg)]

GenerateMode(config, k, rf, rg) ==
    /\ mode' = BuildMode(config.modes[k], rf, rg)
    /\ UNCHANGED <<fields, world, history, noise>>

ModeNext ==
    \E config \in {ClickConfig, ImpactConfig, UpstrokeConfig} :
        \E k \in 1..Len(config.modes) :
            \E rf \in ModeDraws, rg \in ModeDraws : GenerateMode(config, k, rf, rg)

ModeSpec == Init /\ [][ModeNext]_vars

\* an integrator without the division by 1.02
BrownStep_NoLeak(lastOut, white) == lastOut + (2 * white) \div 100

\* line 62: (lastOut + 0.02 * white) / 1.02
BrownStep(lastOut, white) == (100 * lastOut + 2 * white) \div 102

\* lines 54-59: the buffer is created, the integrator starts at 0
CreateBrownNoiseBuffer(sampleRate) ==
    /\ noise = NoNoise
    /\ noise' = [sampleRate |-> sampleRate,
                 length |-> (sampleRate * 5) \div 100,
                 written |-> 0, lastOut |-> 0, sample |-> 0]
    /\ UNCHANGED <<fields, world, history, mode>>

\* lines 60-64: one turn of the loop, with Math.random() = r
WriteSample(r) ==
    /\ noise # NoNoise
    /\ noise.written < noise.length
    /\ LET white == r * 2 - 1000
           out == BrownStep(noise.lastOut, white)
       IN  noise' = [noise EXCEPT !.written = @ + 1,
                                  !.lastOut = out,
                                  !.sample = out * 35]
    /\ UNCHANGED <<fields, world, history, mode>>

NoiseNext ==
    \/ \E sampleRate \in SampleRates : CreateBrownNoiseBuffer(sampleRate)
    \/ \E r \in RandomDraws : WriteSample(r)

NoiseSpec == Init /\ [][NoiseNext]_vars

\* the host dispatches `ended` to every source that has a handler
FairSpec == Spec /\ \A i \in 1..MaxVoices : WF_vars(SourceEnded(i))


(***************************************************************************)
(* The operations a caller makes, as opposed to the continuations and the  *)
(* timer callbacks the host runs.                                          *)
(***************************************************************************)
InitCall == InitAlready \/ InitCtorThrows \/ InitSuspended \/ InitRunning

StartTypingLoop == StartGated \/ StartRecorded \/ StartSynthetic

LoopFiring == \E tm \in timers : \E r \in RandomDraws : TimerFires(tm, r)

LoopIdle == typingLoopSource = 0 /\ typingLoopTimeout = 0

\* a step that connects no new voice
NoNewVoice == Len(voices') <= Len(voices)

\* a loop timer callback runs, whatever it finds
TimerCallback ==
    \E tm \in timers :
        TimerFiresDisabled(tm) \/ \E r \in RandomDraws : TimerFires(tm, r)

(***************************************************************************)
(* C1: in every reachable state at most one loop timer is pending.         *)
(* The code does not keep this: startTypingLoop called twice sets a second *)
(* timer and forgets the handle of the first.                              *)
(***************************************************************************)
C1_AtMostOnePendingTimer == Cardinality(timers) <= 1

(***************************************************************************)
(* C2: once stopTypingLoop has run and startTypingLoop has not been called *)
(* since, no loop timer callback plays a keypress.  The code does not keep *)
(* this: the timer a second start orphaned survives the stop.              *)
(***************************************************************************)
C2_NoFiringAfterStop == [][stopped => ~LoopFiring]_vars

(***************************************************************************)
(* C3: stopTypingLoop leaves no loop source and no loop timer handle, and  *)
(* called when neither is held it changes no field of the engine and       *)
(* nothing of the audio graph, the timers or the store; so a second stop   *)
(* changes nothing.                                                        *)
(***************************************************************************)
C3_StopIdempotent ==
    [][StopTypingLoop =>
          /\ typingLoopSource' = 0 /\ typingLoopTimeout' = 0
          /\ LoopIdle => UNCHANGED <<fields, world>>]_vars

C3_Witness ==
    /\ last.op = "stopTypingLoop" /\ last.idle
    /\ stopped /\ initialized /\ enabled

(***************************************************************************)
(* C4: over any sequence of init calls one audio context is created, the   *)
(* noise buffer is generated once and asset loading is attempted once.     *)
(* The code does not keep this: `initialized` is set after the await of    *)
(* resume(), so an init that starts before it runs the setup again.        *)
(***************************************************************************)
C4_InitOnce == ctxCreated <= 1 /\ noiseGenCount <= 1 /\ loadAttempts <= 1

(***************************************************************************)
(* C5: after the catch block of init has run, no call of init, setEnabled, *)
(* toggle, playKeyPress or startTypingLoop creates an audio context or a   *)
(* voice.  The code does not keep this: `initialized` stays false, and the *)
(* next init runs the setup again.                                         *)
(***************************************************************************)
C5_NoRetryAfterFailure ==
    [][(/\ setupFailed
        /\ \/ InitCall
           \/ \E b \in BOOLEAN : SetEnabled(b)
           \/ Toggle
           \/ PlayKeyPress
           \/ StartTypingLoop)
       => (ctxCreated' = ctxCreated /\ voices' = voices)]_vars

(***************************************************************************)
(* C6: a playKeyPress that passes the gate creates one sample voice and no *)
(* synthetic voice when the keypress buffer is loaded, and the three       *)
(* synthetic voices and no sample voice when it is not.                    *)
(***************************************************************************)
C6_SamplePathIffBuffer ==
    [][(PlayKeyPress /\ enabled /\ initialized) =>
          LET dSample == CountKind(voices', "sample") - CountKind(voices, "sample")
              dModal == CountKind(voices', "modal") - CountKind(voices, "modal")
          IN  /\ Len(voices') = Len(voices) + dSample + dModal
              /\ keyPressBuffer => (dSample = 1 /\ dModal = 0)
              /\ ~keyPressBuffer => (dSample = 0 /\ dModal = 3)]_vars

C6_Witness ==
    /\ keyPressBuffer /\ ~typingLoopBuffer
    /\ Len(voices) = 2
    /\ \A i \in 1..2 : voices[i].kind = "sample"

(***************************************************************************)
(* C7: once the load of the keypress sample has failed, the keypress       *)
(* buffer is absent in every later state.  The code does not keep this     *)
(* when init ran twice (C4): the second loadSounds overwrites the buffers. *)
(***************************************************************************)
C7_LoadFailurePermanent == pressLoadFailed => ~keyPressBuffer

(***************************************************************************)
(* C8: setEnabled(false) on an initialized engine ramps the master gain to *)
(* 0 by now + the fade-out duration, and leaves no loop timer pending and  *)
(* no loop source held.  The ramp is as stated; a timer orphaned by a      *)
(* second start (C1) is still pending.                                     *)
(***************************************************************************)
C8_DisableRampsAndStops ==
    [][(SetEnabled(FALSE) /\ initialized) =>
          /\ masterGain'.target = 0
          /\ masterGain'.rampEnd = now + fadeOutDuration * 1000
          /\ timers' = {}
          /\ typingLoopSource' = 0]_vars

(***************************************************************************)
(* C9: after setEnabled(b) and after toggle the store holds the text of    *)
(* the resulting enabled flag; setEnabled(b) makes the flag b; toggle      *)
(* returns the resulting flag, the negation of the flag it found.          *)
(***************************************************************************)
C9_PersistedEqualsFlag ==
    [][/\ \A b \in BOOLEAN : SetEnabled(b) => enabled' = b
       /\ Toggle => (last'.ret = enabled' /\ enabled' = ~enabled)
       /\ ((\E b \in BOOLEAN : SetEnabled(b)) \/ Toggle) =>
              /\ enabled' => stored' = "true"
              /\ ~enabled' => stored' = "false"]_vars

C9_Witness ==
    /\ last.op = "toggle" /\ last.ret
    /\ enabled /\ stored = "true" /\ setupFailed

(***************************************************************************)
(* C10: a synthetic keypress at time T (from playKeyPress or from the loop *)
(* timer) adds exactly three voices, started at T, T + 1.5 ms, T + 55 ms,  *)
(* lasting 2 ms, 4 ms, 1.5 ms, with 3, 7, 3 modes, each stopped at         *)
(* start + duration + 150 ms, which is not before start + duration.        *)
(***************************************************************************)
C10_ThreeVoices ==
    [][((PlayKeyPress /\ enabled /\ initialized /\ ~keyPressBuffer) \/ LoopFiring) =>
          LET n == Len(voices)
              T == now
              v == voices'
          IN  /\ Len(v) = n + 3
              /\ SubSeq(v, 1, n) = voices
              /\ \A i \in (n + 1)..(n + 3) : v[i].kind = "modal"
              /\ v[n + 1].start = T /\ v[n + 2].start = T + 1500
              /\ v[n + 3].start = T + 55000
              /\ v[n + 1].duration = 2000 /\ v[n + 2].duration = 4000
              /\ v[n + 3].duration = 1500
              /\ v[n + 1].modes = 3 /\ v[n + 2].modes = 7 /\ v[n + 3].modes = 3
              /\ \A i \in (n + 1)..(n + 3) :
                    /\ v[i].stop = v[i].start + v[i].duration + 150000
                    /\ v[i].stop >= v[i].start + v[i].duration]_vars

C10_Witness ==
    /\ now > 0
    /\ Len(voices) = 3
    /\ voices[1].kind = "modal" /\ voices[1].start = now
    /\ voices[3].stop = now + 55000 + 1500 + 150000

(***************************************************************************)
(* C11: a start on the synthetic path sets one timer with a delay of       *)
(* 500 ms; a timer callback that finds the loop running plays one          *)
(* synthetic keypress (three voices) and sets one next timer, whose delay  *)
(* is between 100 ms and 250 ms.                                           *)
(***************************************************************************)
C11_LoopDelays ==
    [][/\ StartSynthetic =>
             /\ last'.delay = 500000
             /\ Cardinality(timers') = Cardinality(timers) + 1
       /\ LoopFiring =>
             /\ Len(voices') = Len(voices) + 3
             /\ Cardinality(timers') = Cardinality(timers)
             /\ typingLoopTimeout' \in timers'
             /\ last'.op = "setTimeout"
             /\ last'.delay >= 100000 /\ last'.delay <= 250000]_vars

C11_Witness ==
    /\ last.op = "setTimeout" /\ last.delay = NextDelay(999)
    /\ Len(voices) = 3 /\ Cardinality(timers) = 1 /\ ~stopped

(***************************************************************************)
(* C12: dispose leaves no loop timer pending and no loop source held and   *)
(* closes the context; a dispose of an engine whose context is closed      *)
(* calls close() on no context.  The code does not keep the last part:     *)
(* this.context is still set, and close() is called on it again.           *)
(***************************************************************************)
C12_DisposeOnce ==
    [][Dispose =>
          /\ timers' = {} /\ typingLoopSource' = 0 /\ typingLoopTimeout' = 0
          /\ context # 0 => context \in closedCtx'
          /\ context \in closedCtx => (last'.op # "close" /\ ~last'.rejected)]_vars

(***************************************************************************)
(* C13: every synthetic voice is released (disconnected from the master    *)
(* gain) some time after it was triggered; so, once no more voices are     *)
(* triggered, no synthetic voice stays connected for ever.  The code does  *)
(* not keep this: triggerModalImpact sets no handler and never             *)
(* disconnects, and nothing else does.                                     *)
(***************************************************************************)
C13_ModalVoicesReleased ==
    (<>[][NoNewVoice]_vars) => []<>(CountKind(voices, "modal") = 0)

(***************************************************************************)
(* C14: a timer callback that runs after stopTypingLoop with no start      *)
(* since, or with sound disabled, adds no voice and sets no timer.  The    *)
(* code does not keep this for the timer a second start orphaned (C1): the *)
(* callback looks at `enabled` only.                                       *)
(***************************************************************************)
C14_StaleCallbackInert ==
    [][((stopped \/ ~enabled) /\ TimerCallback) =>
          (voices' = voices /\ timers' \subseteq timers)]_vars

(***************************************************************************)
(* C15: stopTypingLoop leaves the voices as they are: the same voices,     *)
(* with the same start and stop times.                                     *)
(***************************************************************************)
C15_StopKeepsVoices == [][StopTypingLoop => voices' = voices]_vars

C15_Witness ==
    /\ last.op = "stopTypingLoop" /\ ~last.idle
    /\ Len(voices) = 3 /\ voices[2].stop = now + 1500 + 4000 + 150000

(***************************************************************************)
(* C16: playModalKeypress with no context or no noise buffer adds no voice *)
(* and changes no field of the engine and nothing of the audio graph, the  *)
(* timers or the store.                                                    *)
(***************************************************************************)
C16_NoGraphWithoutNoise ==
    [][(PlayModalKeypressCall /\ (context = 0 \/ ~brownNoiseBuffer)) =>
          UNCHANGED <<fields, world>>]_vars

C16_Witness ==
    /\ last.op = "unavailable"
    /\ context # 0 /\ ~brownNoiseBuffer /\ voices = << >>

C20_GatedCallsInert ==
    [][/\ ((PlayKeyPress \/ StartTypingLoop) /\ (~enabled \/ ~initialized)) =>
             UNCHANGED <<fields, world>>
       /\ (TimerCallback /\ ~enabled) => voices' = voices]_vars

C20_Witness ==
    /\ last.op = "gate"
    /\ ~enabled /\ initialized /\ keyPressBuffer /\ voices = << >>

(***************************************************************************)
(* C18: for every mode of the three events and every draw, the frequency   *)
(* given to the filter is within 5% of the literal for the modes at 160,   *)
(* 280 and 200 Hz and within 3% of it for every other mode, the gain is    *)
(* within 15% of the literal gain, and Q is the literal Q.                 *)
(***************************************************************************)
C18_ModeRanges ==
    mode # NoMode =>
        LET b == mode.base
            pct == IF b.freq \in {160, 280, 200} THEN 5 ELSE 3
        IN  /\ mode.freq >= b.freq * (100 - pct) * 1000
            /\ mode.freq <= b.freq * (100 + pct) * 1000
            /\ mode.gain >= b.gain * 85 * 1000
            /\ mode.gain <= b.gain * 115 * 1000
            /\ mode.Q = b.Q

C18_Witness ==
    /\ mode # NoMode
    /\ mode.base.freq = 160 /\ mode.Q = 28
    /\ mode.freq = 160 * 104990
    /\ mode.gain = 70 * 85000

(***************************************************************************)
(* C19: the noise buffer has floor(sampleRate * 0.05) samples; at every    *)
(* step of its generation the integrator state is within [-1, 1] and the   *)
(* sample written is within [-3.5, 3.5].                                   *)
(***************************************************************************)
C19_NoiseBounded ==
    noise # NoNoise =>
        /\ noise.length * 100 <= noise.sampleRate * 5
        /\ (noise.length + 1) * 100 > noise.sampleRate * 5
        /\ noise.written <= noise.length
        /\ noise.lastOut >= -1000 /\ noise.lastOut <= 1000
        /\ noise.sample >= -35000 /\ noise.sample <= 35000

C19_Witness ==
    /\ noise.sampleRate = 11025 /\ noise.length = 551
    /\ noise.written = noise.length
    /\ noise.lastOut <= -990 /\ noise.sample <= -34650

(***************************************************************************)
(* C21: with the context it holds closed by dispose, no playKeyPress,      *)
(* startTypingLoop, setEnabled or timer callback adds a voice, a loop      *)
(* timer or a loop source, or schedules a ramp on the master gain of the   *)
(* closed context.  The code does not keep this: dispose changes neither   *)
(* `enabled` nor `initialized` nor `context`, so every gate still passes.  *)
(***************************************************************************)
C21_InertAfterDispose ==
    [][(/\ context # 0 /\ context \in closedCtx
        /\ \/ PlayKeyPress
           \/ StartTypingLoop
           \/ \E b \in BOOLEAN : SetEnabled(b)
           \/ TimerCallback)
       => /\ voices' = voices
          /\ timers' \subseteq timers
          /\ sources' \subseteq sources
          /\ masterGain' = masterGain]_vars

(***************************************************************************)
(* C22: once init has completed without failure, the target of the master  *)
(* gain is 0 when sound is disabled and the master volume when it is       *)
(* enabled.  The code does not keep this: init sets the gain to the master *)
(* volume whatever `enabled` is, so setEnabled(false) before init leaves   *)
(* an audible gain.                                                        *)
(***************************************************************************)
C22_GainFollowsEnabled ==
    (initialized /\ ~setupFailed /\ loading = 0 /\ resuming = {}) =>
        masterGain.target = (IF enabled THEN masterVolume ELSE 0)

(***************************************************************************)
(* C23: at most one loop source is playing, it is the one held in          *)
(* typingLoopSource, none plays while a loop timer is pending, and none    *)
(* plays after stopTypingLoop.  The code does not keep this: `initialized` *)
(* is set before the samples are loaded, so a loop started on the          *)
(* synthetic path is joined by a recorded one started after the load.      *)
(***************************************************************************)
C23_OneLoopAtATime ==
    /\ Cardinality(sources) <= 1
    /\ \A src \in sources : src = typingLoopSource
    /\ sources # {} => timers = {}
    /\ stopped => sources = {}

(***************************************************************************)
(* C24: setEnabled(true) on an engine that was disabled, with no           *)
(* startTypingLoop since the loop was stopped, leaves no loop timer        *)
(* pending, no loop source playing and neither handle set.  The call       *)
(* itself starts nothing; a timer orphaned by a second start (C1) is still *)
(* pending and fires again once sound is enabled.                          *)
(***************************************************************************)
C24_EnableStartsNothing ==
    [][(SetEnabled(TRUE) /\ ~enabled /\ stopped) =>
          (timers' = {} /\ sources' = {} /\ LoopIdle')]_vars

====
